---- MODULE Spec2Model ----
(***************************************************************************)
(* Sales analytics dashboard: the synthetic order generator                *)
(* (src/data/generate_data.py) and the filter / aggregation / search       *)
(* pipeline of the dashboard script (src/app/app.py).                      *)
(*                                                                         *)
(* Encodings.  A calendar date is the number of days since START_DATE      *)
(* (2022-01-01).  Money is an integer number of cents (the source rounds   *)
(* every amount to 2 decimals); float summation error is not modelled.     *)
(* A text is a sequence of one-character strings, so that substring and    *)
(* pattern search can be computed; a categorical name is a TLA+ string     *)
(* and NameText gives its text.  A float that may be NaN is a record       *)
(* [nan, num, den] (a reduced fraction).                                   *)
(*                                                                         *)
(* Of the dashboard the model holds the filter, the KPI summary, the       *)
(* category-breakdown, return-rate and day-of-week views and the raw-data   *)
(* search.  The other aggregate views, the charts, and the head(n_rows)    *)
(* cut of the raw-data table (at least 10 rows, more than any table here)  *)
(* are left out.                                                           *)
(***************************************************************************)
EXTENDS Integers, Sequences, FiniteSets, TLC

\* ------------------------------------------------------------------ bounds
\* N_ORDERS is 5000 in the source; the model generates MaxOrders orders.
MaxOrders == 3
\* The largest source table (rows of sales_data.csv) the dashboard loads.
MaxRows == 3

\* ------------------------------------------------- generate_data.py: config
START_DATE == 0
END_DATE == 1095
total_days == END_DATE - START_DATE

CATEGORIES ==
    ("Electronics" :>
        [products |-> <<"Laptop", "Smartphone", "Tablet", "Headphones", "Smartwatch">>,
         price_range |-> <<15000, 120000>>])
    @@ ("Clothing" :>
        [products |-> <<"T-Shirt", "Jeans", "Jacket", "Dress", "Shoes">>,
         price_range |-> <<2000, 20000>>])
    @@ ("Home & Living" :>
        [products |-> <<"Sofa", "Lamp", "Bedsheet", "Curtains", "Cookware">>,
         price_range |-> <<3000, 80000>>])
    @@ ("Books" :>
        [products |-> <<"Fiction", "Non-Fiction", "Textbook", "Comic", "Biography">>,
         price_range |-> <<1000, 8000>>])
    @@ ("Sports" :>
        [products |-> <<"Yoga Mat", "Dumbbells", "Cycle", "Tennis Racket", "Shoes">>,
         price_range |-> <<2500, 50000>>])
    @@ ("Beauty" :>
        [products |-> <<"Perfume", "Skincare Kit", "Lipstick", "Hair Dryer", "Serum">>,
         price_range |-> <<1500, 25000>>])

REGIONS == <<"North", "South", "East", "West", "Central">>

CITIES ==
    ("North" :> <<"Delhi", "Chandigarh", "Amritsar">>)
    @@ ("South" :> <<"Bangalore", "Chennai", "Hyderabad">>)
    @@ ("East" :> <<"Kolkata", "Bhubaneswar", "Patna">>)
    @@ ("West" :> <<"Mumbai", "Pune", "Ahmedabad">>)
    @@ ("Central" :> <<"Bhopal", "Indore", "Nagpur">>)

CHANNELS == <<"Website", "Mobile App", "Marketplace", "Direct">>

PAYMENT == <<"Credit Card", "Debit Card", "UPI", "Net Banking", "COD">>

\* np.random.choice([1, 1, 1, 2, 2, 3], ...): the quantity population.
QuantityChoices == <<1, 1, 1, 2, 2, 3>>

\* np.random.choice([0, 5, 10, 15, 20, 25], ...): the discount population.
DiscountChoices == <<0, 5, 10, 15, 20, 25>>

\* np.random.choice([3.0, 3.5, 4.0, 4.5, 5.0], ...), in tenths.
RatingChoices == <<30, 35, 40, 45, 50>>

\* np.random.choice([0, 1], ...): the returned flag.
ReturnedChoices == <<0, 1>>

\* ---------------------------------------------------------------- helpers
Range(s) == {s[i] : i \in DOMAIN s}

RECURSIVE SumSeq(_)
SumSeq(s) == IF s = <<>> THEN 0 ELSE s[1] + SumSeq(Tail(s))

RECURSIVE Gcd(_, _)
Gcd(a, b) == IF b = 0 THEN a ELSE Gcd(b, a % b)

\* Python's round() of the exact quotient n / d (n >= 0, d > 0): to the
\* nearest integer, a tie to the even one.
RoundHalfEven(n, d) ==
    LET q == n \div d
        r == n % d
    IN  IF 2 * r < d THEN q
        ELSE IF 2 * r > d THEN q + 1
        ELSE IF q % 2 = 0 THEN q ELSE q + 1

\* ---------------------------------------------------------------- calendar
IsLeap(y) == (y % 4 = 0 /\ y % 100 # 0) \/ y % 400 = 0

DaysInYear(y) == IF IsLeap(y) THEN 366 ELSE 365

MonthLengths(y) ==
    <<31, IF IsLeap(y) THEN 29 ELSE 28, 31, 30, 31, 30, 31, 31, 30, 31, 30, 31>>

\* Days from START_DATE (1 January 2022) to 1 January of year y (negative
\* for an earlier year).
RECURSIVE DaysBeforeYear(_)
DaysBeforeYear(y) ==
    IF y = 2022 THEN 0
    ELSE IF y > 2022 THEN DaysBeforeYear(y - 1) + DaysInYear(y - 1)
    ELSE DaysBeforeYear(y + 1) - DaysInYear(y)

\* Days of year y before the first of month m.
RECURSIVE DaysBeforeMonth(_, _)
DaysBeforeMonth(y, m) ==
    IF m <= 1 THEN 0 ELSE DaysBeforeMonth(y, m - 1) + MonthLengths(y)[m - 1]

\* START_DATE + timedelta(days=d): the calendar fields of the date.
RECURSIVE YearFrom(_, _)
YearFrom(y, d) ==
    IF d < DaysInYear(y) THEN y ELSE YearFrom(y + 1, d - DaysInYear(y))

YearOf(d) == YearFrom(2022, d)

\* The day of the year, 1-based.
DayOfYear(d) == d - DaysBeforeYear(YearOf(d)) + 1

RECURSIVE MonthFrom(_, _, _)
MonthFrom(y, m, doy) ==
    IF doy <= MonthLengths(y)[m] THEN m
    ELSE MonthFrom(y, m + 1, doy - MonthLengths(y)[m])

MonthOf(d) == MonthFrom(YearOf(d), 1, DayOfYear(d))

DayOfMonth(d) == DayOfYear(d) - DaysBeforeMonth(YearOf(d), MonthOf(d))

\* date.weekday(): Monday is 0.  1 January 2022 was a Saturday.
Weekday(d) == (d + 5) % 7

dow_order ==
    <<"Monday", "Tuesday", "Wednesday", "Thursday", "Friday", "Saturday", "Sunday">>

MonthAbbr ==
    <<"Jan", "Feb", "Mar", "Apr", "May", "Jun",
      "Jul", "Aug", "Sep", "Oct", "Nov", "Dec">>

\* The number of ISO weeks of year y: 53 when 1 January is a Thursday, or a
\* Wednesday of a leap year.
WeeksInYear(y) ==
    LET j == Weekday(DaysBeforeYear(y))
    IN  IF j = 3 \/ (IsLeap(y) /\ j = 2) THEN 53 ELSE 52

\* date.isocalendar().week
IsoWeek(d) ==
    LET w == (DayOfYear(d) - (Weekday(d) + 1) + 10) \div 7
    IN  IF w < 1 THEN WeeksInYear(YearOf(d) - 1)
        ELSE IF w > WeeksInYear(YearOf(d)) THEN 1
        ELSE w

\* -------------------------------------------------------------------- text
DigitChar == <<"0", "1", "2", "3", "4", "5", "6", "7", "8", "9">>

\* str(n) of an integer n >= 0.
RECURSIVE StrInt(_)
StrInt(n) ==
    IF n < 10 THEN <<DigitChar[n + 1]>>
    ELSE StrInt(n \div 10) \o <<DigitChar[(n % 10) + 1]>>

\* n in decimal, zero-padded on the left to at least w characters (%02d, %Y).
RECURSIVE ZeroPad(_, _)
ZeroPad(t, w) == IF Len(t) >= w THEN t ELSE ZeroPad(<<"0">> \o t, w)

\* int(t) of a text of decimal digits.
DigitValueOf ==
    [c \in Range(DigitChar) |-> CHOOSE k \in 0..9 : DigitChar[k + 1] = c]

DigitValue(c) == DigitValueOf[c]

RECURSIVE ParseInt(_)
ParseInt(t) ==
    IF t = <<>> THEN 0
    ELSE 10 * ParseInt(SubSeq(t, 1, Len(t) - 1)) + DigitValue(t[Len(t)])

\* str(x) of a float holding an amount of c cents: the shortest decimal that
\* reads back, which keeps at least one digit after the point.
StrCents(c) ==
    StrInt(c \div 100) \o <<".">> \o
        (IF c % 10 = 0 THEN StrInt((c % 100) \div 10)
         ELSE ZeroPad(StrInt(c % 100), 2))

\* str(x) of a float holding t tenths (a rating: 4.5, 4.0).
StrTenths(t) == StrInt(t \div 10) \o <<".">> \o StrInt(t % 10)

\* The text of a categorical name or calendar word of the source.
NameText ==
    ("Electronics" :> <<"E", "l", "e", "c", "t", "r", "o", "n", "i", "c", "s">>)
    @@ ("Laptop" :> <<"L", "a", "p", "t", "o", "p">>)
    @@ ("Smartphone" :> <<"S", "m", "a", "r", "t", "p", "h", "o", "n", "e">>)
    @@ ("Tablet" :> <<"T", "a", "b", "l", "e", "t">>)
    @@ ("Headphones" :> <<"H", "e", "a", "d", "p", "h", "o", "n", "e", "s">>)
    @@ ("Smartwatch" :> <<"S", "m", "a", "r", "t", "w", "a", "t", "c", "h">>)
    @@ ("Clothing" :> <<"C", "l", "o", "t", "h", "i", "n", "g">>)
    @@ ("T-Shirt" :> <<"T", "-", "S", "h", "i", "r", "t">>)
    @@ ("Jeans" :> <<"J", "e", "a", "n", "s">>)
    @@ ("Jacket" :> <<"J", "a", "c", "k", "e", "t">>)
    @@ ("Dress" :> <<"D", "r", "e", "s", "s">>)
    @@ ("Shoes" :> <<"S", "h", "o", "e", "s">>)
    @@ ("Home & Living" :> <<"H", "o", "m", "e", " ", "&", " ", "L", "i", "v", "i", "n", "g">>)
    @@ ("Sofa" :> <<"S", "o", "f", "a">>)
    @@ ("Lamp" :> <<"L", "a", "m", "p">>)
    @@ ("Bedsheet" :> <<"B", "e", "d", "s", "h", "e", "e", "t">>)
    @@ ("Curtains" :> <<"C", "u", "r", "t", "a", "i", "n", "s">>)
    @@ ("Cookware" :> <<"C", "o", "o", "k", "w", "a", "r", "e">>)
    @@ ("Books" :> <<"B", "o", "o", "k", "s">>)
    @@ ("Fiction" :> <<"F", "i", "c", "t", "i", "o", "n">>)
    @@ ("Non-Fiction" :> <<"N", "o", "n", "-", "F", "i", "c", "t", "i", "o", "n">>)
    @@ ("Textbook" :> <<"T", "e", "x", "t", "b", "o", "o", "k">>)
    @@ ("Comic" :> <<"C", "o", "m", "i", "c">>)
    @@ ("Biography" :> <<"B", "i", "o", "g", "r", "a", "p", "h", "y">>)
    @@ ("Sports" :> <<"S", "p", "o", "r", "t", "s">>)
    @@ ("Yoga Mat" :> <<"Y", "o", "g", "a", " ", "M", "a", "t">>)
    @@ ("Dumbbells" :> <<"D", "u", "m", "b", "b", "e", "l", "l", "s">>)
    @@ ("Cycle" :> <<"C", "y", "c", "l", "e">>)
    @@ ("Tennis Racket" :> <<"T", "e", "n", "n", "i", "s", " ", "R", "a", "c", "k", "e", "t">>)
    @@ ("Beauty" :> <<"B", "e", "a", "u", "t", "y">>)
    @@ ("Perfume" :> <<"P", "e", "r", "f", "u", "m", "e">>)
    @@ ("Skincare Kit" :> <<"S", "k", "i", "n", "c", "a", "r", "e", " ", "K", "i", "t">>)
    @@ ("Lipstick" :> <<"L", "i", "p", "s", "t", "i", "c", "k">>)
    @@ ("Hair Dryer" :> <<"H", "a", "i", "r", " ", "D", "r", "y", "e", "r">>)
    @@ ("Serum" :> <<"S", "e", "r", "u", "m">>)
    @@ ("North" :> <<"N", "o", "r", "t", "h">>)
    @@ ("South" :> <<"S", "o", "u", "t", "h">>)
    @@ ("East" :> <<"E", "a", "s", "t">>)
    @@ ("West" :> <<"W", "e", "s", "t">>)
    @@ ("Central" :> <<"C", "e", "n", "t", "r", "a", "l">>)
    @@ ("Delhi" :> <<"D", "e", "l", "h", "i">>)
    @@ ("Chandigarh" :> <<"C", "h", "a", "n", "d", "i", "g", "a", "r", "h">>)
    @@ ("Amritsar" :> <<"A", "m", "r", "i", "t", "s", "a", "r">>)
    @@ ("Bangalore" :> <<"B", "a", "n", "g", "a", "l", "o", "r", "e">>)
    @@ ("Chennai" :> <<"C", "h", "e", "n", "n", "a", "i">>)
    @@ ("Hyderabad" :> <<"H", "y", "d", "e", "r", "a", "b", "a", "d">>)
    @@ ("Kolkata" :> <<"K", "o", "l", "k", "a", "t", "a">>)
    @@ ("Bhubaneswar" :> <<"B", "h", "u", "b", "a", "n", "e", "s", "w", "a", "r">>)
    @@ ("Patna" :> <<"P", "a", "t", "n", "a">>)
    @@ ("Mumbai" :> <<"M", "u", "m", "b", "a", "i">>)
    @@ ("Pune" :> <<"P", "u", "n", "e">>)
    @@ ("Ahmedabad" :> <<"A", "h", "m", "e", "d", "a", "b", "a", "d">>)
    @@ ("Bhopal" :> <<"B", "h", "o", "p", "a", "l">>)
    @@ ("Indore" :> <<"I", "n", "d", "o", "r", "e">>)
    @@ ("Nagpur" :> <<"N", "a", "g", "p", "u", "r">>)
    @@ ("Website" :> <<"W", "e", "b", "s", "i", "t", "e">>)
    @@ ("Mobile App" :> <<"M", "o", "b", "i", "l", "e", " ", "A", "p", "p">>)
    @@ ("Marketplace" :> <<"M", "a", "r", "k", "e", "t", "p", "l", "a", "c", "e">>)
    @@ ("Direct" :> <<"D", "i", "r", "e", "c", "t">>)
    @@ ("Credit Card" :> <<"C", "r", "e", "d", "i", "t", " ", "C", "a", "r", "d">>)
    @@ ("Debit Card" :> <<"D", "e", "b", "i", "t", " ", "C", "a", "r", "d">>)
    @@ ("UPI" :> <<"U", "P", "I">>)
    @@ ("Net Banking" :> <<"N", "e", "t", " ", "B", "a", "n", "k", "i", "n", "g">>)
    @@ ("COD" :> <<"C", "O", "D">>)
    @@ ("Monday" :> <<"M", "o", "n", "d", "a", "y">>)
    @@ ("Tuesday" :> <<"T", "u", "e", "s", "d", "a", "y">>)
    @@ ("Wednesday" :> <<"W", "e", "d", "n", "e", "s", "d", "a", "y">>)
    @@ ("Thursday" :> <<"T", "h", "u", "r", "s", "d", "a", "y">>)
    @@ ("Friday" :> <<"F", "r", "i", "d", "a", "y">>)
    @@ ("Saturday" :> <<"S", "a", "t", "u", "r", "d", "a", "y">>)
    @@ ("Sunday" :> <<"S", "u", "n", "d", "a", "y">>)
    @@ ("Jan" :> <<"J", "a", "n">>)
    @@ ("Feb" :> <<"F", "e", "b">>)
    @@ ("Mar" :> <<"M", "a", "r">>)
    @@ ("Apr" :> <<"A", "p", "r">>)
    @@ ("May" :> <<"M", "a", "y">>)
    @@ ("Jun" :> <<"J", "u", "n">>)
    @@ ("Jul" :> <<"J", "u", "l">>)
    @@ ("Aug" :> <<"A", "u", "g">>)
    @@ ("Sep" :> <<"S", "e", "p">>)
    @@ ("Oct" :> <<"O", "c", "t">>)
    @@ ("Nov" :> <<"N", "o", "v">>)
    @@ ("Dec" :> <<"D", "e", "c">>)

\* date.strftime("%Y-%m-%d")
strftime_Ymd(d) ==
    ZeroPad(StrInt(YearOf(d)), 4) \o <<"-">> \o ZeroPad(StrInt(MonthOf(d)), 2)
        \o <<"-">> \o ZeroPad(StrInt(DayOfMonth(d)), 2)

\* date.strftime("%b %Y")
strftime_bY(d) ==
    NameText[MonthAbbr[MonthOf(d)]] \o <<" ">> \o ZeroPad(StrInt(YearOf(d)), 4)

\* f"Q{(date.month-1)//3 + 1} {date.year}"
QuarterText(d) ==
    <<"Q">> \o StrInt(((MonthOf(d) - 1) \div 3) + 1) \o <<" ">> \o StrInt(YearOf(d))

\* f"ORD-{10000 + i}"
OrderIdText(i) == <<"O", "R", "D", "-">> \o StrInt(10000 + i)

\* pd.read_csv(parse_dates=['Date']) of a "%Y-%m-%d" cell: the date.
ParseDate(t) ==
    LET y == ParseInt(SubSeq(t, 1, 4))
        m == ParseInt(SubSeq(t, 6, 7))
        dd == ParseInt(SubSeq(t, 9, 10))
    IN  DaysBeforeYear(y) + DaysBeforeMonth(y, m) + dd - 1

\* The printable ASCII characters in code order, from the space (code 32);
\* "backtick" stands for the character of code 96, which no text holds.
AsciiChars ==
    <<" ", "!", "\"", "#", "$", "%", "&", "'", "(", ")", "*", "+",
      ",", "-", ".", "/", "0", "1", "2", "3", "4", "5", "6", "7",
      "8", "9", ":", ";", "<", "=", ">", "?", "@", "A", "B", "C",
      "D", "E", "F", "G", "H", "I", "J", "K", "L", "M", "N", "O",
      "P", "Q", "R", "S", "T", "U", "V", "W", "X", "Y", "Z", "[",
      "\\", "]", "^", "_", "backtick", "a", "b", "c", "d", "e", "f", "g",
      "h", "i", "j", "k", "l", "m", "n", "o", "p", "q", "r", "s",
      "t", "u", "v", "w", "x", "y", "z", "{", "|", "}", "~">>

\* ord(c), for every character of the table.
CharCodeOf ==
    [c \in Range(AsciiChars) |->
        31 + (CHOOSE k \in DOMAIN AsciiChars : AsciiChars[k] = c)]

CharCode(c) == CharCodeOf[c]

\* c.lower(), for every character of the table.
LowerOf ==
    [c \in Range(AsciiChars) |->
        IF CharCodeOf[c] >= 65 /\ CharCodeOf[c] <= 90
        THEN AsciiChars[CharCodeOf[c] + 32 - 31]
        ELSE c]

Lower(c) == LowerOf[c]

\* t.lower() of a text.
LowerText(t) == [i \in DOMAIN t |-> Lower(t[i])]

\* a < b for two texts (Python's str order: by character code, a proper
\* prefix first).
RECURSIVE TextLess(_, _)
TextLess(a, b) ==
    IF b = <<>> THEN FALSE
    ELSE IF a = <<>> THEN TRUE
    ELSE IF a[1] # b[1] THEN CharCode(a[1]) < CharCode(b[1])
    ELSE TextLess(Tail(a), Tail(b))

NameLess(a, b) == TextLess(NameText[a], NameText[b])

\* sorted(S) of a set of names.
RECURSIVE SortNames(_)
SortNames(S) ==
    IF S = {} THEN <<>>
    ELSE LET m == CHOOSE x \in S : \A y \in S \ {x} : NameLess(x, y)
         IN  <<m>> \o SortNames(S \ {m})

\* ------------------------------------------------------------------ state
VARIABLES
    \* generate_data.py
    dates,          \* the drawn dates (sorted once all are drawn)
    records,        \* the records built so far
    gen_pc,         \* "dates", "records" or "done": the generator's position
    sales_csv,      \* the rows of sales_data.csv
    \* app.py
    df,             \* the cached table load_data() returned
    sel_years, sel_cats, sel_regions, sel_channels,   \* the multiselects
    search,         \* the search box
    fdf,            \* the filtered table of the last run of the script
    total_rev, total_profit, total_orders, avg_order, profit_margin,  \* KPIs
    cat_rev,        \* the category-breakdown view
    returns,        \* the return-rate view
    dow,            \* the day-of-week view
    display_df,     \* the rows of the raw-data table of the last run
    error           \* "none", or the exception that ended the last run

gen_vars == <<dates, records, gen_pc, sales_csv>>
app_vars ==
    <<df, sel_years, sel_cats, sel_regions, sel_channels, search, fdf,
      total_rev, total_profit, total_orders, avg_order, profit_margin,
      cat_rev, returns, dow, display_df, error>>
vars == <<gen_vars, app_vars>>

\* ----------------------------------------------- generate_data.py: dates
\* One pass of the date loop: a date in the festival season (October to
\* December) is replaced by a second draw when np.random.rand() < 0.3.
DrawnDate(d, redraw, d2) ==
    IF MonthOf(START_DATE + d) \in {10, 11, 12} /\ redraw
    THEN START_DATE + d2
    ELSE START_DATE + d

RECURSIVE InsertSorted(_, _)
InsertSorted(x, s) ==
    IF s = <<>> THEN <<x>>
    ELSE IF x <= s[1] THEN <<x>> \o s
    ELSE <<s[1]>> \o InsertSorted(x, Tail(s))

SortedDatesUnsorted(ds) == ds

\* dates.sort()
RECURSIVE SortedDates(_)
SortedDates(ds) ==
    IF ds = <<>> THEN <<>> ELSE InsertSorted(ds[1], SortedDates(Tail(ds)))

\* --------------------------------------------- generate_data.py: records
PickCityFirstRegion(region, k) == CITIES[REGIONS[1]][k]

\* np.random.choice(CITIES[region]): the k-th city of the region's list.
PickCity(region, k) == CITIES[region][k]

\* np.random.choice(cat_info["products"]): the k-th product of the
\* category's list.
PickProduct(category, k) == CATEGORIES[category].products[k]

\* round(np.random.uniform(lo, hi), 2), in cents: the point u percent of the
\* way from lo to hi.
PickPrice(category, u) ==
    LET lo == CATEGORIES[category].price_range[1]
        hi == CATEGORIES[category].price_range[2]
    IN  lo + RoundHalfEven((hi - lo) * u, 100)

\* round(price * qty * (1 - discount/100), 2), in cents.
RevenueOf(price, qty, discount) ==
    RoundHalfEven(price * qty * (100 - discount), 100)

\* round(revenue * np.random.uniform(0.15, 0.40), 2), in cents; the margin
\* drawn is m thousandths.
ProfitOf(revenue, m) == RoundHalfEven(revenue * m, 1000)

\* The record of the i-th (0-based) sorted date; draw holds the outcome of
\* each random draw of the loop body.
MakeRecord(i, date, draw) ==
    LET category == draw.category
        product == PickProduct(category, draw.product)
        price == PickPrice(category, draw.price)
        qty == QuantityChoices[draw.qty]
        discount == DiscountChoices[draw.discount]
        revenue == RevenueOf(price, qty, discount)
        profit == ProfitOf(revenue, draw.margin)
        region == draw.region
        city == PickCity(region, draw.city)
    IN  [OrderID |-> OrderIdText(i),
         Date |-> strftime_Ymd(date),
         Month |-> strftime_bY(date),
         Quarter |-> QuarterText(date),
         Year |-> YearOf(date),
         Category |-> category,
         Product |-> product,
         UnitPrice |-> price,
         Quantity |-> qty,
         Discount |-> discount,
         Revenue |-> revenue,
         Profit |-> profit,
         Region |-> region,
         City |-> city,
         Channel |-> CHANNELS[draw.channel],
         PaymentMethod |-> PAYMENT[draw.payment],
         Rating |-> RatingChoices[draw.rating],
         Returned |-> ReturnedChoices[draw.returned]]

\* The outcomes of the random draws the generator is explored with.
DateDraws == {2, 280, 1094}

RecordDraws ==
    [category : {"Clothing", "Sports"},
     product : {1, 5},
     price : {50},
     qty : {4},
     discount : {3},
     margin : {250},
     region : {"North", "West"},
     city : {2},
     channel : {1},
     payment : {3},
     rating : {4},
     returned : {1}]

\* for _ in range(N_ORDERS): ... dates.append(d)
DrawDate ==
    /\ gen_pc = "dates"
    /\ Len(dates) < MaxOrders
    /\ \E d \in DateDraws, redraw \in BOOLEAN, d2 \in DateDraws :
          dates' = Append(dates, DrawnDate(d, redraw, d2))
    /\ UNCHANGED <<records, gen_pc, sales_csv, app_vars>>

\* dates.sort(); records = []
SortDates ==
    /\ gen_pc = "dates"
    /\ Len(dates) = MaxOrders
    /\ dates' = SortedDates(dates)
    /\ gen_pc' = "records"
    /\ UNCHANGED <<records, sales_csv, app_vars>>

\* for i, date in enumerate(dates): ... records.append({...})
AppendRecord ==
    /\ gen_pc = "records"
    /\ Len(records) < Len(dates)
    /\ \E draw \in RecordDraws :
          records' =
              Append(records, MakeRecord(Len(records), dates[Len(records) + 1], draw))
    /\ UNCHANGED <<dates, gen_pc, sales_csv, app_vars>>

\* df = pd.DataFrame(records); df.to_csv("sales_data.csv", index=False)
SaveCsv ==
    /\ gen_pc = "records"
    /\ Len(records) = Len(dates)
    /\ sales_csv' = records
    /\ gen_pc' = "done"
    /\ UNCHANGED <<dates, records, app_vars>>

\* ------------------------------------------------------------ app.py: floats
\* A float64 result: NaN, infinity (den = 0), or the reduced fraction num/den.
NaN == [nan |-> TRUE, num |-> 0, den |-> 1]

Inf == [nan |-> FALSE, num |-> 1, den |-> 0]

Frac(n, d) ==
    LET g == Gcd(n, d) IN [nan |-> FALSE, num |-> n \div g, den |-> d \div g]

Num(n) == Frac(n, 1)

\* a / b of two non-negative numbers held as float64: 0/0 is NaN, x/0 is inf.
FloatDiv(a, b) ==
    IF b = 0 THEN (IF a = 0 THEN NaN ELSE Inf) ELSE Frac(a, b)

\* x * k for an integer k > 0.
FloatTimes(x, k) ==
    IF x.nan \/ x.den = 0 THEN x ELSE Frac(x.num * k, x.den)

\* x.round(1)
Round1(x) ==
    IF x.nan \/ x.den = 0 THEN x ELSE Frac(RoundHalfEven(x.num * 10, x.den), 10)

\* ---------------------------------------------------------- app.py: load
\* str(period) of date.to_period('M'): "%Y-%m".
MonthNumText(d) ==
    ZeroPad(StrInt(YearOf(d)), 4) \o <<"-">> \o ZeroPad(StrInt(MonthOf(d)), 2)

\* load_data(): the rows of the file with Date parsed and the three derived
\* columns added.
load_data(csv) ==
    [i \in DOMAIN csv |->
        LET d == ParseDate(csv[i].Date)
        IN  [csv[i] EXCEPT !.Date = d]
                @@ [MonthNum |-> MonthNumText(d),
                    DayOfWeek |-> dow_order[Weekday(d) + 1],
                    WeekNum |-> IsoWeek(d)]]

\* sorted(df[col].unique()): the options of a multiselect, as a set.
Options(table, col) == {table[i][col] : i \in DOMAIN table}

\* -------------------------------------------------------- app.py: filter
isinEmptyMeansAll(v, allowed) == allowed = {} \/ v \in allowed

\* Series.isin(values), for one cell.
isin(v, allowed) == v \in allowed

ApplyFiltersNoChannel(table, ys, cs, rs, chs) ==
    SelectSeq(table, LAMBDA r :
        isin(r.Year, ys) /\ isin(r.Category, cs) /\ isin(r.Region, rs))

\* fdf = df[isin(Year) & isin(Category) & isin(Region) & isin(Channel)]
ApplyFilters(table, ys, cs, rs, chs) ==
    SelectSeq(table, LAMBDA r :
        /\ isin(r.Year, ys)
        /\ isin(r.Category, cs)
        /\ isin(r.Region, rs)
        /\ isin(r.Channel, chs))

\* ---------------------------------------------------------- app.py: KPIs
\* table[col].sum()
SumCol(table, col) == SumSeq([i \in DOMAIN table |-> table[i][col]])

\* table[col].mean(): NaN for an empty table.
MeanCol(table, col) == FloatDiv(SumCol(table, col), Len(table))

\* avg_order = fdf['Revenue'].mean()
AvgOrder(table) == MeanCol(table, "Revenue")

ProfitMarginUnguarded(rev, profit) == FloatTimes(FloatDiv(profit, rev), 100)

\* (total_profit / total_rev * 100) if total_rev > 0 else 0
ProfitMargin(rev, profit) ==
    IF rev > 0 THEN FloatTimes(FloatDiv(profit, rev), 100) ELSE Num(0)

\* --------------------------------------------------------- app.py: views
\* The rows of one group of table.groupby(col).
GroupRows(table, col, key) == SelectSeq(table, LAMBDA r : r[col] = key)

\* The group keys of table.groupby(col), a categorical column: sorted.
GroupKeys(table, col) == SortNames(Options(table, col))

\* sort_values('Revenue', ascending=False) of a view.
RECURSIVE InsertByRevenueDesc(_, _)
InsertByRevenueDesc(x, s) ==
    IF s = <<>> THEN <<x>>
    ELSE IF x.Revenue >= s[1].Revenue THEN <<x>> \o s
    ELSE <<s[1]>> \o InsertByRevenueDesc(x, Tail(s))

RECURSIVE SortByRevenueDesc(_)
SortByRevenueDesc(view) ==
    IF view = <<>> THEN <<>>
    ELSE InsertByRevenueDesc(view[1], SortByRevenueDesc(Tail(view)))

GroupRevenueFirstRow(table, key) == GroupRows(table, "Category", key)[1].Revenue

\* groupby('Category')['Revenue'].sum(), for one category.
GroupRevenue(table, key) == SumCol(GroupRows(table, "Category", key), "Revenue")

\* cat_rev = fdf.groupby('Category')['Revenue'].sum()
\*               .sort_values(ascending=False).reset_index()
CatRev(table) ==
    LET keys == GroupKeys(table, "Category")
    IN  SortByRevenueDesc(
            [k \in DOMAIN keys |->
                [Category |-> keys[k], Revenue |-> GroupRevenue(table, keys[k])]])

ReturnRateUnrounded(n_returns, n_orders) ==
    FloatTimes(FloatDiv(n_returns, n_orders), 100)

\* (returns['Returns'] / returns['TotalOrders'] * 100).round(1), for one row.
ReturnRate(n_returns, n_orders) ==
    Round1(FloatTimes(FloatDiv(n_returns, n_orders), 100))

\* returns = fdf.groupby('Category').agg(TotalOrders, Returns).reset_index()
\* returns['ReturnRate'] = ...
ReturnsView(table) ==
    LET keys == GroupKeys(table, "Category")
    IN  [k \in DOMAIN keys |->
            LET g == GroupRows(table, "Category", keys[k])
            IN  [Category |-> keys[k],
                 TotalOrders |-> Len(g),
                 Returns |-> SumCol(g, "Returned"),
                 ReturnRate |-> ReturnRate(SumCol(g, "Returned"), Len(g))]]

\* fdf.groupby('DayOfWeek').agg(Orders=count, Revenue=sum)
DowGroups(table) ==
    LET keys == GroupKeys(table, "DayOfWeek")
    IN  [k \in DOMAIN keys |->
            LET g == GroupRows(table, "DayOfWeek", keys[k])
            IN  [DayOfWeek |-> keys[k],
                 Orders |-> Num(Len(g)),
                 Revenue |-> Num(SumCol(g, "Revenue"))]]

reindexKeepsGroups(view, order) == view

\* .reindex(order).reset_index(): one row per label of order, in that order;
\* a label with no group gets NaN measures.
reindex(view, order) ==
    [k \in DOMAIN order |->
        IF \E j \in DOMAIN view : view[j].DayOfWeek = order[k]
        THEN view[CHOOSE j \in DOMAIN view : view[j].DayOfWeek = order[k]]
        ELSE [DayOfWeek |-> order[k], Orders |-> NaN, Revenue |-> NaN]]

DowView(table) == reindex(DowGroups(table), dow_order)

\* -------------------------------------------------------- app.py: search
\* The columns of df (the file's, then the three load_data adds).
Columns ==
    <<"OrderID", "Date", "Month", "Quarter", "Year", "Category", "Product",
      "UnitPrice", "Quantity", "Discount", "Revenue", "Profit", "Region",
      "City", "Channel", "PaymentMethod", "Rating", "Returned", "MonthNum",
      "DayOfWeek", "WeekNum">>

\* The columns st.dataframe shows.
DisplayedColumns ==
    <<"OrderID", "Date", "Category", "Product", "Quantity", "UnitPrice",
      "Discount", "Revenue", "Profit", "Region", "City", "Channel", "Rating">>

\* str(Timestamp) of a date: "%Y-%m-%d 00:00:00".
TimestampText(d) ==
    strftime_Ymd(d) \o <<" ", "0", "0", ":", "0", "0", ":", "0", "0">>

\* row.astype(str)[col]: the string form of one cell.
CellText(r, col) ==
    CASE col \in {"OrderID", "Month", "Quarter", "MonthNum"} -> r[col]
      [] col = "Date" -> TimestampText(r.Date)
      [] col \in {"Year", "Quantity", "Discount", "Returned", "WeekNum"} ->
            StrInt(r[col])
      [] col \in {"UnitPrice", "Revenue", "Profit"} -> StrCents(r[col])
      [] col = "Rating" -> StrTenths(r.Rating)
      [] OTHER -> NameText[r[col]]

\* Whether re.compile(pat) succeeds, for a pattern of literal characters,
\* "." and group parentheses: the parentheses must balance.
RECURSIVE ParenDepthOk(_, _)
ParenDepthOk(pat, depth) ==
    IF pat = <<>> THEN depth = 0
    ELSE IF pat[1] = "(" THEN ParenDepthOk(Tail(pat), depth + 1)
    ELSE IF pat[1] = ")" THEN depth > 0 /\ ParenDepthOk(Tail(pat), depth - 1)
    ELSE ParenDepthOk(Tail(pat), depth)

re_compiles(pat) == ParenDepthOk(pat, 0)

\* re.search(pat, text, re.IGNORECASE) for such a pattern: "." matches any
\* character, a group matches what it holds, any other character itself in
\* either case.
re_search(pat, text) ==
    LET p == LowerText(SelectSeq(pat, LAMBDA c : c \notin {"(", ")"}))
        t == LowerText(text)
    IN  \E pos \in 0..(Len(t) - Len(p)) :
            \A k \in 1..Len(p) : p[k] = "." \/ p[k] = t[pos + k]

\* row.astype(str).str.contains(search, case=False).any()
RowMatches(r, term) ==
    \E c \in DOMAIN Columns : re_search(term, CellText(r, Columns[c]))

\* display_df after lines 334-337, when no exception is raised.
SearchRows(table, term) ==
    IF term # <<>> THEN SelectSeq(table, LAMBDA r : RowMatches(r, term))
    ELSE table

\* The exception of lines 334-337: re.error once contains() compiles a bad
\* pattern, which it does for the first row (of an empty table, none).
SearchError(table, term) ==
    IF term # <<>> /\ table # <<>> /\ ~re_compiles(term) THEN "re.error"
    ELSE "none"

\* ---------------------------------------------------- app.py: one script run
\* Streamlit runs the whole script on every widget change: everything below
\* line 87 is recomputed from the cached df and the widgets' values.
ScriptRunInPlace(ys, cs, rs, chs, term) ==
    LET f == ApplyFilters(df, ys, cs, rs, chs)
        rev == SumCol(f, "Revenue")
        profit == SumCol(f, "Profit")
        err == SearchError(f, term)
    IN  /\ sel_years' = ys
        /\ sel_cats' = cs
        /\ sel_regions' = rs
        /\ sel_channels' = chs
        /\ search' = term
        /\ df' = f
        /\ fdf' = f
        /\ total_rev' = rev
        /\ total_profit' = profit
        /\ total_orders' = Len(f)
        /\ avg_order' = AvgOrder(f)
        /\ profit_margin' = ProfitMargin(rev, profit)
        /\ cat_rev' = CatRev(f)
        /\ returns' = ReturnsView(f)
        /\ dow' = DowView(f)
        /\ error' = err
        /\ display_df' = IF err = "none" THEN SearchRows(f, term) ELSE f
        /\ UNCHANGED gen_vars

ScriptRun(ys, cs, rs, chs, term) ==
    LET f == ApplyFilters(df, ys, cs, rs, chs)
        rev == SumCol(f, "Revenue")
        profit == SumCol(f, "Profit")
        err == SearchError(f, term)
    IN  /\ sel_years' = ys
        /\ sel_cats' = cs
        /\ sel_regions' = rs
        /\ sel_channels' = chs
        /\ search' = term
        /\ fdf' = f
        /\ total_rev' = rev
        /\ total_profit' = profit
        /\ total_orders' = Len(f)
        /\ avg_order' = AvgOrder(f)
        /\ profit_margin' = ProfitMargin(rev, profit)
        /\ cat_rev' = CatRev(f)
        /\ returns' = ReturnsView(f)
        /\ dow' = DowView(f)
        /\ error' = err
        /\ display_df' = IF err = "none" THEN SearchRows(f, term) ELSE f
        /\ UNCHANGED <<df, gen_vars>>

Toggle(S, x) == IF x \in S THEN S \ {x} ELSE S \cup {x}

\* The search box's inputs the model explores: nothing, a payment method
\* (a column that is not displayed), a city, a pattern with a wildcard, and
\* an unbalanced parenthesis.
SearchTerms ==
    {<<>>, <<"u", "p", "i">>, <<"d", "e", "l", "h", "i">>, <<"b", ".", "o">>,
     <<"(">>}

ChangeYears ==
    \E y \in Options(df, "Year") :
        ScriptRun(Toggle(sel_years, y), sel_cats, sel_regions, sel_channels, search)

ChangeCategories ==
    \E c \in Options(df, "Category") :
        ScriptRun(sel_years, Toggle(sel_cats, c), sel_regions, sel_channels, search)

ChangeRegions ==
    \E r \in Options(df, "Region") :
        ScriptRun(sel_years, sel_cats, Toggle(sel_regions, r), sel_channels, search)

ChangeChannels ==
    \E c \in Options(df, "Channel") :
        ScriptRun(sel_years, sel_cats, sel_regions, Toggle(sel_channels, c), search)

ChangeSearch ==
    \E term \in SearchTerms \ {search} :
        ScriptRun(sel_years, sel_cats, sel_regions, sel_channels, term)

\* ------------------------------------------------------------ the two programs
\* The orders the dashboard's source files are made of, by date: the date and
\* the draws of each.
SampleOrders ==
    << [date |-> 2,
        draw |-> [category |-> "Electronics", product |-> 1, price |-> 0,
                  qty |-> 1, discount |-> 1, margin |-> 200,
                  region |-> "North", city |-> 1, channel |-> 1,
                  payment |-> 3, rating |-> 4, returned |-> 1]],
       [date |-> 280,
        draw |-> [category |-> "Books", product |-> 1, price |-> 50,
                  qty |-> 4, discount |-> 3, margin |-> 250,
                  region |-> "South", city |-> 2, channel |-> 4,
                  payment |-> 5, rating |-> 3, returned |-> 2]],
       [date |-> 366,
        draw |-> [category |-> "Books", product |-> 4, price |-> 0,
                  qty |-> 6, discount |-> 6, margin |-> 400,
                  region |-> "North", city |-> 3, channel |-> 1,
                  payment |-> 3, rating |-> 5, returned |-> 1]],
       [date |-> 400,
        draw |-> [category |-> "Electronics", product |-> 3, price |-> 100,
                  qty |-> 2, discount |-> 2, margin |-> 150,
                  region |-> "South", city |-> 1, channel |-> 1,
                  payment |-> 1, rating |-> 2, returned |-> 2]] >>

\* The files the generator writes from 1..MaxRows of these orders: the dates
\* ascending, the identifiers by position.
SampleCsvs ==
    {[i \in DOMAIN pick |->
         MakeRecord(i - 1, SampleOrders[pick[i]].date, SampleOrders[pick[i]].draw)] :
       pick \in {p \in UNION {[1..n -> DOMAIN SampleOrders] : n \in 1..MaxRows} :
                    \A i, j \in DOMAIN p : i < j => p[i] <= p[j]}}

GenIdle ==
    /\ dates = <<>>
    /\ records = <<>>
    /\ gen_pc = "done"

AppIdle ==
    /\ df = <<>>
    /\ sel_years = {} /\ sel_cats = {} /\ sel_regions = {} /\ sel_channels = {}
    /\ search = <<>>
    /\ fdf = <<>>
    /\ total_rev = 0 /\ total_profit = 0 /\ total_orders = 0
    /\ avg_order = NaN /\ profit_margin = Num(0)
    /\ cat_rev = <<>> /\ returns = <<>> /\ dow = <<>>
    /\ display_df = <<>>
    /\ error = "none"

\* The dashboard: df = load_data() of a generated file, then the first run
\* of the script with every option selected and the search box empty.
Init ==
    /\ GenIdle
    /\ sales_csv \in SampleCsvs
    /\ df = load_data(sales_csv)
    /\ LET ys == Options(df, "Year")
           cs == Options(df, "Category")
           rs == Options(df, "Region")
           chs == Options(df, "Channel")
           f == ApplyFilters(df, ys, cs, rs, chs)
       IN  /\ sel_years = ys
           /\ sel_cats = cs
           /\ sel_regions = rs
           /\ sel_channels = chs
           /\ search = <<>>
           /\ fdf = f
           /\ total_rev = SumCol(f, "Revenue")
           /\ total_profit = SumCol(f, "Profit")
           /\ total_orders = Len(f)
           /\ avg_order = AvgOrder(f)
           /\ profit_margin = ProfitMargin(SumCol(f, "Revenue"), SumCol(f, "Profit"))
           /\ cat_rev = CatRev(f)
           /\ returns = ReturnsView(f)
           /\ dow = DowView(f)
           /\ display_df = f
           /\ error = "none"

Next ==
    \/ ChangeYears
    \/ ChangeCategories
    \/ ChangeRegions
    \/ ChangeChannels
    \/ ChangeSearch

Spec == Init /\ [][Next]_vars

\* The generator, run once, before any dashboard exists.
GenInit ==
    /\ dates = <<>>
    /\ records = <<>>
    /\ gen_pc = "dates"
    /\ sales_csv = <<>>
    /\ AppIdle

GenNext ==
    \/ DrawDate
    \/ SortDates
    \/ AppendRecord
    \/ SaveCsv

GenSpec == GenInit /\ [][GenNext]_vars

\* ------------------------------------------------------------------ claims
\* Whether a row of df passes the four membership tests of the selection.
PassesSelection(r) ==
    /\ r.Year \in sel_years
    /\ r.Category \in sel_cats
    /\ r.Region \in sel_regions
    /\ r.Channel \in sel_channels

\* C1: the filtered table is exactly the source rows whose Year, Category,
\* Region and Channel are each in the corresponding allowed set: no row
\* failing one of the four tests is kept, no row passing all four is dropped
\* (or kept twice), and so it has at most as many rows as the source table.
C1_FilterIsExactSubset ==
    /\ \A i \in DOMAIN df : (df[i] \in Range(fdf)) <=> PassesSelection(df[i])
    /\ Range(fdf) \subseteq Range(df)
    /\ Cardinality(Range(fdf)) = Len(fdf)
    /\ Len(fdf) <= Len(df)

\* A run that kept one row and dropped another that fails the channel test
\* alone.
C1_Witness ==
    /\ fdf # <<>>
    /\ \E i \in DOMAIN df :
          /\ df[i] \notin Range(fdf)
          /\ df[i].Year \in sel_years
          /\ df[i].Category \in sel_cats
          /\ df[i].Region \in sel_regions
          /\ df[i].Channel \notin sel_channels

\* C2: an empty allowed set for any one of the four dimensions leaves the
\* filtered table with zero rows, whatever the other three sets and the
\* source table are.
C2_EmptySelectionGivesNoRows ==
    (sel_years = {} \/ sel_cats = {} \/ sel_regions = {} \/ sel_channels = {})
        => Len(fdf) = 0

\* Only the region selection is empty, over a source table with rows.
C2_Witness ==
    /\ df # <<>>
    /\ sel_regions = {}
    /\ sel_years = Options(df, "Year")
    /\ sel_cats = Options(df, "Category")
    /\ sel_channels = Options(df, "Channel")
    /\ fdf = <<>>

\* C3: when the filtered table is empty the average order value is defined
\* and equal to 0, as the profit margin is.
C3_AvgOrderZeroWhenEmpty ==
    fdf = <<>> => (avg_order = Num(0) /\ profit_margin = Num(0))

\* The number of filtered orders of a category, and of those returned.
OrdersOf(c) == Cardinality({i \in DOMAIN fdf : fdf[i].Category = c})

ReturnsOf(c) ==
    Cardinality({i \in DOMAIN fdf : fdf[i].Category = c /\ fdf[i].Returned = 1})

\* C4 as stated: every category of the source table has a defined rate in
\* the return-rate view; with zero filtered orders the rate is 0, with at
\* least one it is returns / orders x 100 (to the one decimal the view keeps).
C4_ZeroOrderCategoryHasRateZero ==
    \A c \in Options(df, "Category") :
        \E k \in DOMAIN returns :
            /\ returns[k].Category = c
            /\ ~returns[k].ReturnRate.nan
            /\ returns[k].ReturnRate.den # 0
            /\ IF OrdersOf(c) = 0 THEN returns[k].ReturnRate.num = 0
               ELSE \E t \in 0..1000 :
                       /\ returns[k].ReturnRate.num * 10 = t * returns[k].ReturnRate.den
                       /\ 2 * t * OrdersOf(c) <= 2000 * ReturnsOf(c) + OrdersOf(c)
                       /\ 2 * t * OrdersOf(c) >= 2000 * ReturnsOf(c) - OrdersOf(c)

\* C4 amended: the return-rate view has one row for each category with at
\* least one filtered order and none for a category with zero filtered
\* orders, so no rate is ever a division by zero; a row's rate is
\* returns / orders x 100 rounded to one decimal.
C4_ReturnRateOnlyForPresentCategories ==
    /\ {returns[k].Category : k \in DOMAIN returns} = Options(fdf, "Category")
    /\ \A j, k \in DOMAIN returns :
          returns[j].Category = returns[k].Category => j = k
    /\ \A k \in DOMAIN returns :
          LET orders == OrdersOf(returns[k].Category)
              rets == ReturnsOf(returns[k].Category)
              rate == returns[k].ReturnRate
          IN  /\ orders >= 1
              /\ returns[k].TotalOrders = orders
              /\ returns[k].Returns = rets
              /\ ~rate.nan
              /\ rate.den # 0
              /\ \E t \in 0..1000 :
                    /\ rate.num * 10 = t * rate.den
                    /\ 2 * t * orders <= 2000 * rets + orders
                    /\ 2 * t * orders >= 2000 * rets - orders

\* A category of the source table is filtered out (it has no row in the
\* view) while another keeps two orders, one of them returned.
C4_Witness ==
    /\ \E c \in Options(df, "Category") :
          /\ OrdersOf(c) = 0
          /\ \A k \in DOMAIN returns : returns[k].Category # c
    /\ \E k \in DOMAIN returns :
          /\ returns[k].TotalOrders = 2
          /\ returns[k].Returns = 1
          /\ returns[k].ReturnRate = Num(50)

\* The filtered orders of a weekday, and their revenue.
DayRows(day) == SelectSeq(fdf, LAMBDA r : r.DayOfWeek = day)

\* C5: the day-of-week view has exactly 7 rows, Monday to Sunday in that
\* order; a weekday with no filtered order is present with null measures, a
\* weekday with orders carries its order count and revenue sum.
C5_DayOfWeekAlwaysSevenRows ==
    /\ Len(dow) = 7
    /\ [k \in 1..7 |-> dow[k].DayOfWeek]
          = <<"Monday", "Tuesday", "Wednesday", "Thursday", "Friday",
              "Saturday", "Sunday">>
    /\ \A k \in 1..7 :
          LET rows == DayRows(dow[k].DayOfWeek)
          IN  IF rows = <<>>
              THEN dow[k].Orders = NaN /\ dow[k].Revenue = NaN
              ELSE /\ dow[k].Orders = Num(Len(rows))
                   /\ dow[k].Revenue = Num(SumCol(rows, "Revenue"))

\* Two filtered orders on a Monday, none on a Tuesday, and a row of the
\* source table filtered out.
C5_Witness ==
    /\ Len(fdf) < Len(df)
    /\ Len(DayRows("Monday")) = 2
    /\ dow[1].Orders = Num(2)
    /\ DayRows("Tuesday") = <<>>
    /\ dow[2].Orders = NaN

\* C6: the revenues of the category-breakdown view sum to the KPI total
\* revenue, each filtered row counting in exactly one category group.
C6_CategoryRevenueSumsToTotal ==
    /\ SumSeq([k \in DOMAIN cat_rev |-> cat_rev[k].Revenue]) = total_rev
    /\ total_rev = SumSeq([i \in DOMAIN fdf |-> fdf[i].Revenue])
    /\ {cat_rev[k].Category : k \in DOMAIN cat_rev} = Options(fdf, "Category")
    /\ \A j, k \in DOMAIN cat_rev :
          cat_rev[j].Category = cat_rev[k].Category => j = k

\* A source row is filtered out and the two rows left fall in two category
\* groups, the larger revenue first.
C6_Witness ==
    /\ Len(df) = 3
    /\ Len(fdf) = 2
    /\ Len(cat_rev) = 2
    /\ cat_rev[1].Revenue > cat_rev[2].Revenue
    /\ total_rev = cat_rev[1].Revenue + cat_rev[2].Revenue

\* C7: the profit margin is 0 when the total revenue is 0, otherwise
\* total profit / total revenue x 100; it is never the result of a division
\* by zero.
C7_ProfitMarginGuarded ==
    /\ ~profit_margin.nan
    /\ profit_margin.den # 0
    /\ total_rev = 0 => profit_margin.num = 0
    /\ total_rev # 0 => profit_margin = Frac(total_profit * 100, total_rev)

\* An empty filtered table: the total revenue is 0.
C7_Witness ==
    /\ df # <<>>
    /\ fdf = <<>>
    /\ total_rev = 0
    /\ profit_margin = Num(0)

\* Whether a text holds a term as a case-insensitive substring.
ContainsIgnoreCase(text, term) ==
    \E pos \in 0..(Len(text) - Len(term)) :
        \A k \in 1..Len(term) : Lower(term[k]) = Lower(text[pos + k])

\* C8: the search keeps a filtered row if and only if the string form of a
\* displayed column holds the search term as a case-insensitive substring;
\* an empty term keeps every filtered row.
C8_SearchMatchesDisplayedColumnsOnly ==
    display_df =
        SelectSeq(fdf, LAMBDA r :
            \/ search = <<>>
            \/ \E c \in DOMAIN DisplayedColumns :
                  ContainsIgnoreCase(CellText(r, DisplayedColumns[c]), search))

\* C9: every record the generator emits has its City in its Region's city
\* list and its Product in its Category's product list.
C9_RecordsReferentiallyConsistent ==
    \A r \in Range(records) \cup Range(sales_csv) :
        /\ r.City \in Range(CITIES[r.Region])
        /\ r.Product \in Range(CATEGORIES[r.Category].products)

\* The file is written and holds records of two regions and two categories.
C9_Witness ==
    /\ gen_pc = "done"
    /\ Len(sales_csv) = MaxOrders
    /\ \E i, j \in DOMAIN sales_csv :
          /\ sales_csv[i].Region # sales_csv[j].Region
          /\ sales_csv[i].Category # sales_csv[j].Category

\* The number an order identifier carries after "ORD-".
OrderIdNumber(t) == ParseInt(SubSeq(t, 5, Len(t)))

\* C10: the i-th emitted record (0-based) has identifier ORD-(10000+i); the
\* identifiers are pairwise distinct and form the range 10000..10000+N-1;
\* of two records the one with the smaller identifier never has the later
\* date.
C10_IdentifiersDenseAndChronological ==
    /\ \A i \in DOMAIN records :
          /\ SubSeq(records[i].OrderID, 1, 4) = <<"O", "R", "D", "-">>
          /\ OrderIdNumber(records[i].OrderID) = 10000 + (i - 1)
    /\ \A i, j \in DOMAIN records :
          /\ records[i].OrderID = records[j].OrderID => i = j
          /\ OrderIdNumber(records[i].OrderID) < OrderIdNumber(records[j].OrderID)
                => ParseDate(records[i].Date) <= ParseDate(records[j].Date)
    /\ gen_pc = "done" =>
          /\ sales_csv = records
          /\ {OrderIdNumber(sales_csv[i].OrderID) : i \in DOMAIN sales_csv}
                = 10000..(10000 + MaxOrders - 1)

\* The file is written and its first and last records have different dates.
C10_Witness ==
    /\ gen_pc = "done"
    /\ Len(sales_csv) = MaxOrders
    /\ ParseDate(sales_csv[1].Date) < ParseDate(sales_csv[Len(sales_csv)].Date)

\* C11: across any sequence of filter and search changes the loaded source
\* table stays what load_data() read from the file, and after each event the
\* filtered table, the KPIs and the views are what the current selection
\* alone produces from that original table, whatever was selected or
\* searched before.
C11_RunDependsOnCurrentSelectionOnly ==
    LET source == load_data(sales_csv)
        expected ==
            SelectSeq(source, LAMBDA r :
                /\ r.Year \in sel_years
                /\ r.Category \in sel_cats
                /\ r.Region \in sel_regions
                /\ r.Channel \in sel_channels)
    IN  /\ df = source
        /\ fdf = expected
        /\ total_rev = SumCol(expected, "Revenue")
        /\ total_profit = SumCol(expected, "Profit")
        /\ total_orders = Len(expected)
        /\ avg_order = AvgOrder(expected)
        /\ profit_margin = ProfitMargin(SumCol(expected, "Revenue"),
                                        SumCol(expected, "Profit"))
        /\ cat_rev = CatRev(expected)
        /\ returns = ReturnsView(expected)
        /\ dow = DowView(expected)

\* A filter change dropped a row of a three-row source table and a search
\* then dropped a row of the raw-data table: the filtered table keeps the
\* row the search dropped, and the source table keeps all three.
C11_Witness ==
    /\ Len(df) = 3
    /\ fdf # <<>>
    /\ Len(fdf) < Len(df)
    /\ search # <<>>
    /\ error = "none"
    /\ Len(display_df) < Len(fdf)

====
